---- MODULE Spec2Model ----
(***************************************************************************)
(* Debt netting and settlement minimisation of the expense tracker:        *)
(* DebtSimplifier (backend/apps/payments/debt_simplifier.py), the          *)
(* group_balances and user_balances views that aggregate unsettled expense *)
(* shares and hand the net balances to it (backend/apps/payments/views.py) *)
(* and the idempotency middleware of POST /api/expenses                    *)
(* (backend/apps/core/middleware.py).                                      *)
(*                                                                         *)
(* Amounts are Decimals with two fractional digits (ExpenseShare.amount,   *)
(* decimal_places=2); the model counts them in hundredths, so that         *)
(* Decimal('0.01') is 1.  A Python dict is a sequence of entries in        *)
(* insertion order.                                                        *)
(***************************************************************************)
EXTENDS Integers, Sequences, FiniteSets, TLC

VARIABLES method, balances, transactions, result, shares, response, calls,
          requests, cache, stored, now

vars == <<method, balances, transactions, result, shares, response, calls,
          requests, cache, stored, now>>

(***************************************************************************)
(* Bounds of the model.                                                    *)
(***************************************************************************)
NumUsers == 4
MaxAmt == 4
MaxMergeAmt == 3
MaxTxns == 3
MaxShares == 2
MaxShareAmt == 1
NumLedgerUsers == 5
MaxLedgerAmt == 6
MaxRepeatAmt == 5
MaxRepeatTxns == 3
MaxOrderAmt == 3
MaxCallAmt == 2
MaxRequests == 2
MaxTicks == 2
MaxLoopAmt == 3

\* the state of the idempotency middleware: the requests received, the cache,
\* what process_response has stored in it so far, and the clock
idempotency == <<requests, cache, stored, now>>

\* Decimal('0.01'), in hundredths
Eps == 1

UserIds == <<"A", "B", "C", "D", "E", "F", "G", "H">>

(***************************************************************************)
(* Helpers: abs, min, sum and list operations of Python.                   *)
(***************************************************************************)
Abs(x) == IF x < 0 THEN -x ELSE x

Max2(a, b) == IF a <= b THEN b ELSE a

Min2(a, b) == IF a <= b THEN a ELSE b

Min3(a, b, c) == Min2(a, Min2(b, c))

MapSeq(s, Op(_)) == [i \in 1..Len(s) |-> Op(s[i])]

Range(s) == {s[i] : i \in 1..Len(s)}

RECURSIVE SumBal(_)
SumBal(d) == IF d = <<>> THEN 0 ELSE Head(d).bal + SumBal(Tail(d))

\* dict lookup with a default, dict given as a sequence of [uid, bal]
Lookup(d, u) ==
    IF \E i \in 1..Len(d) : d[i].uid = u
    THEN d[CHOOSE i \in 1..Len(d) : d[i].uid = u].bal
    ELSE 0

(***************************************************************************)
(* float(Decimal), str(float) and Decimal(str).  A float is kept as the    *)
(* decimal it is nearest to; its str() is the shortest decimal string      *)
(* that reads back as that float, here the pair <<units, hundredths>>,     *)
(* and Decimal() parses that string.                                       *)
(***************************************************************************)
float(d) == [nearest |-> d]

str(f) == <<f.nearest \div 100, f.nearest % 100>>

Decimal(s) == s[1] * 100 + s[2]

(***************************************************************************)
(* DebtSimplifier.simplify_debts                                           *)
(***************************************************************************)
NonNegative(x) == x >= 0

\* "> Decimal('0.01')": the amount is significant
Significant(x) == x > Eps

\* "< Decimal('0.01')": the remaining balance is settled
Settled(x) == x < Eps

\* lines 29-33: the entries (user_id, balance) with abs(balance) > 0.01
FilterZero(bals) == SelectSeq(bals, LAMBDA e : Significant(Abs(e.bal)))

\* line 39: the list the code calls creditors, the positive balances
Creditors(net_balances) ==
    MapSeq(SelectSeq(net_balances, LAMBDA e : e.bal > 0),
           LAMBDA e : [uid |-> e.uid, amt |-> e.bal])

EveryoneDebtor(net_balances) ==
    MapSeq(net_balances, LAMBDA e : [uid |-> e.uid, amt |-> Abs(e.bal)])

\* line 40: the list the code calls debtors, the negative balances, negated
Debtors(net_balances) ==
    MapSeq(SelectSeq(net_balances, LAMBDA e : e.bal < 0),
           LAMBDA e : [uid |-> e.uid, amt |-> -e.bal])

\* list.sort(key=amount, reverse=True) is stable: equal amounts keep their order
RECURSIVE InsertDesc(_, _)
InsertDesc(sorted, x) ==
    IF sorted = <<>> THEN <<x>>
    ELSE IF Head(sorted).amt >= x.amt
         THEN <<Head(sorted)>> \o InsertDesc(Tail(sorted), x)
         ELSE <<x>> \o sorted

RECURSIVE SortDescStable(_)
SortDescStable(s) ==
    IF s = <<>> THEN <<>>
    ELSE InsertDesc(SortDescStable(SubSeq(s, 1, Len(s) - 1)), s[Len(s)])

NoSort(s) == s

\* lines 43-44
SortDesc(s) == SortDescStable(s)

SelfTxn(from_id, to_id, amount) ==
    [from |-> from_id, to |-> from_id, amount |-> amount]

\* lines 60-64: the dict appended to simplified
MakeTxn(from_id, to_id, amount) ==
    [from |-> from_id, to |-> to_id, amount |-> amount]

StaleCreditor(creditors, idx, transaction_amount) == creditors

\* line 67
UpdateCreditor(creditors, idx, transaction_amount) ==
    [creditors EXCEPT ![idx].amt = @ - transaction_amount]

StaleDebtor(debtors, idx, transaction_amount) == debtors

\* line 68
UpdateDebtor(debtors, idx, transaction_amount) ==
    [debtors EXCEPT ![idx].amt = @ - transaction_amount]

\* line 52: the loop condition
LoopGuard(st) ==
    /\ st.creditor_idx <= Len(st.creditors)
    /\ st.debtor_idx <= Len(st.debtors)

\* lines 53-74: one iteration of the greedy matching loop
LoopStep(st) ==
    LET c == st.creditors[st.creditor_idx]
        d == st.debtors[st.debtor_idx]
        transaction_amount == Min2(c.amt, d.amt)
        creditors1 == UpdateCreditor(st.creditors, st.creditor_idx, transaction_amount)
        debtors1 == UpdateDebtor(st.debtors, st.debtor_idx, transaction_amount)
    IN  [creditors |-> creditors1,
         debtors |-> debtors1,
         creditor_idx |-> IF Settled(creditors1[st.creditor_idx].amt)
                          THEN st.creditor_idx + 1 ELSE st.creditor_idx,
         debtor_idx |-> IF Settled(debtors1[st.debtor_idx].amt)
                        THEN st.debtor_idx + 1 ELSE st.debtor_idx,
         simplified |-> IF Significant(transaction_amount)
                        THEN Append(st.simplified,
                                    MakeTxn(d.uid, c.uid, float(transaction_amount)))
                        ELSE st.simplified,
         iterations |-> st.iterations + 1]

RECURSIVE Loop(_)
Loop(st) == IF LoopGuard(st) THEN Loop(LoopStep(st)) ELSE st

\* lines 38-50: the state on entry to the loop
LoopInit(net_balances) ==
    [creditors |-> SortDesc(Creditors(net_balances)),
     debtors |-> SortDesc(Debtors(net_balances)),
     creditor_idx |-> 1,
     debtor_idx |-> 1,
     simplified |-> <<>>,
     iterations |-> 0]

simplify_debts(bals) ==
    LET net_balances == FilterZero(bals)
    IN  IF net_balances = <<>> THEN <<>>
        ELSE Loop(LoopInit(net_balances)).simplified

(***************************************************************************)
(* DebtSimplifier.find_cycles                                              *)
(***************************************************************************)
EveryoneNeighbour(bals, user_id) ==
    MapSeq(SelectSeq(bals, LAMBDA o : o.uid # user_id), LAMBDA o : o.uid)

\* lines 90-96: graph[user_id], the users a positive-balance user points to
GraphOf(bals, user_id) ==
    IF Lookup(bals, user_id) > 0
    THEN MapSeq(SelectSeq(bals, LAMBDA o : o.uid # user_id /\ o.bal < 0),
                LAMBDA o : o.uid)
    ELSE <<>>

\* list.index: position of the first occurrence
IndexOf(path, node) ==
    CHOOSE i \in 1..Len(path) :
        path[i] = node /\ \A j \in 1..(i - 1) : path[j] # node

\* lines 101-120: the nested dfs; st carries the closure's visited and cycles
RECURSIVE dfs(_, _, _, _), dfs_neighbors(_, _, _, _)
dfs(bals, node, path, st) ==
    IF node \in Range(path)
    THEN LET cycle == SubSeq(path, IndexOf(path, node), Len(path)) \o <<node>>
         IN  IF Len(cycle) > 2
             THEN [st EXCEPT !.cycles = Append(@, cycle)]
             ELSE st
    ELSE IF node \in st.visited THEN st
    ELSE dfs_neighbors(bals, GraphOf(bals, node), Append(path, node),
                       [st EXCEPT !.visited = @ \cup {node}])

dfs_neighbors(bals, neighbors, path, st) ==
    IF neighbors = <<>> THEN st
    ELSE dfs_neighbors(bals, Tail(neighbors), path,
                       dfs(bals, Head(neighbors), path, st))

\* lines 122-124
RECURSIVE dfs_all(_, _, _)
dfs_all(bals, keys, st) ==
    IF keys = <<>> THEN st
    ELSE dfs_all(bals, Tail(keys),
                 IF Head(keys) \notin st.visited
                 THEN dfs(bals, Head(keys), <<>>, st)
                 ELSE st)

find_cycles(bals) ==
    dfs_all(bals, MapSeq(bals, LAMBDA e : e.uid),
            [visited |-> {}, cycles |-> <<>>]).cycles

(***************************************************************************)
(* DebtSimplifier._merge_transactions                                      *)
(***************************************************************************)
\* the keys of a dict filled in the order of s: first occurrences, in order
RECURSIVE Dedup(_)
Dedup(s) ==
    IF s = <<>> THEN <<>>
    ELSE LET r == Dedup(SubSeq(s, 1, Len(s) - 1))
         IN  IF s[Len(s)] \in Range(r) THEN r ELSE Append(r, s[Len(s)])

LastFirstKeys(txns) ==
    LET keys == Dedup(MapSeq(txns, LAMBDA t : t.from))
    IN  [i \in 1..Len(keys) |-> keys[Len(keys) + 1 - i]]

\* lines 164-170: graph.keys()
GraphKeys(txns) == Dedup(MapSeq(txns, LAMBDA t : t.from))

\* lines 164-170: graph[from_user].keys()
GraphToKeys(txns, from_user) ==
    Dedup(MapSeq(SelectSeq(txns, LAMBDA t : t.from = from_user), LAMBDA t : t.to))

\* lines 169-170: graph[from_user][to_user], the sum of Decimal(str(amount))
RECURSIVE GraphAmount(_, _, _)
GraphAmount(txns, from_user, to_user) ==
    IF txns = <<>> THEN 0
    ELSE (IF Head(txns).from = from_user /\ Head(txns).to = to_user
          THEN Decimal(str(Head(txns).amount)) ELSE 0)
         + GraphAmount(Tail(txns), from_user, to_user)

\* lines 178-181: direct_txns, a dict (from_user, to_user) -> amount
RECURSIVE DirectFrom(_, _)
DirectFrom(txns, from_keys) ==
    IF from_keys = <<>> THEN <<>>
    ELSE MapSeq(GraphToKeys(txns, Head(from_keys)),
                LAMBDA to_user : [from |-> Head(from_keys), to |-> to_user,
                                  amount |-> GraphAmount(txns, Head(from_keys), to_user)])
         \o DirectFrom(txns, Tail(from_keys))

DirectTxns(txns) == DirectFrom(txns, GraphKeys(txns))

HasKey(direct, f, t) == \E i \in 1..Len(direct) : direct[i].from = f /\ direct[i].to = t

GetKey(direct, f, t) ==
    direct[CHOOSE i \in 1..Len(direct) : direct[i].from = f /\ direct[i].to = t].amount

\* lines 210-211: direct_txns[key] -= min_amount
Reduce(direct, f, t, min_amount) ==
    [i \in 1..Len(direct) |->
        IF direct[i].from = f /\ direct[i].to = t
        THEN [direct[i] EXCEPT !.amount = @ - min_amount]
        ELSE direct[i]]

\* lines 212-215: del direct_txns[key] when what is left is < 0.01
DelSettled(direct, f, t) ==
    IF Settled(GetKey(direct, f, t))
    THEN SelectSeq(direct, LAMBDA e : ~(e.from = f /\ e.to = t))
    ELSE direct

\* lines 195-206: the intermediates, in graph.keys() order, that pass every test
Intermediates(direct, keys, from_user, to_user, amount) ==
    SelectSeq(keys, LAMBDA b :
        /\ b # from_user
        /\ b # to_user
        /\ HasKey(direct, from_user, b)
        /\ HasKey(direct, b, to_user)
        /\ Significant(Min3(amount, GetKey(direct, from_user, b),
                            GetKey(direct, b, to_user))))

\* lines 184-225: the body of the second pass for the i-th item of direct_txns.
\* Deleting from the dict that is being iterated makes the for statement raise
\* RuntimeError when it asks for the next item, also after the last one.
MergeBody(st, keys, i) ==
    LET from_user == st.direct[i].from
        to_user == st.direct[i].to
        amount == st.direct[i].amount
        found == Intermediates(st.direct, keys, from_user, to_user, amount)
        intermediate == Head(found)
        min_amount == Min3(amount, GetKey(st.direct, from_user, intermediate),
                           GetKey(st.direct, intermediate, to_user))
        merged_amount == IF found # <<>> THEN min_amount ELSE amount
        reduced == Reduce(Reduce(st.direct, from_user, intermediate, min_amount),
                          intermediate, to_user, min_amount)
        direct1 == IF found # <<>>
                   THEN DelSettled(DelSettled(reduced, from_user, intermediate),
                                   intermediate, to_user)
                   ELSE st.direct
    IN  IF <<from_user, to_user>> \in st.processed_pairs THEN st
        ELSE [direct |-> direct1,
              merged |-> IF Significant(merged_amount)
                         THEN Append(st.merged,
                                     MakeTxn(from_user, to_user, float(merged_amount)))
                         ELSE st.merged,
              processed_pairs |-> IF Significant(merged_amount)
                                  THEN st.processed_pairs \cup {<<from_user, to_user>>}
                                  ELSE st.processed_pairs,
              raised |-> Len(direct1) # Len(st.direct)]

RECURSIVE MergePass(_, _, _)
MergePass(st, keys, i) ==
    IF st.raised \/ i > Len(st.direct) THEN st
    ELSE MergePass(MergeBody(st, keys, i), keys, i + 1)

\* lines 228-234: the direct transactions that were not emitted by the second pass
Remaining(st) ==
    MapSeq(SelectSeq(st.direct, LAMBDA e :
               Significant(e.amount) /\ <<e.from, e.to>> \notin st.processed_pairs),
           LAMBDA e : MakeTxn(e.from, e.to, float(e.amount)))

_merge_transactions(txns) ==
    IF txns = <<>> THEN [status |-> "ok", value |-> <<>>]
    ELSE LET st == MergePass([direct |-> DirectTxns(txns), merged |-> <<>>,
                              processed_pairs |-> {}, raised |-> FALSE],
                             GraphKeys(txns), 1)
         IN  IF st.raised
             THEN [status |-> "RuntimeError", value |-> <<>>]
             ELSE [status |-> "ok", value |-> st.merged \o Remaining(st)]

(***************************************************************************)
(* DebtSimplifier.minimize_transactions                                    *)
(***************************************************************************)
minimize_transactions(bals) ==
    LET cycles == find_cycles(bals)
        simplified == simplify_debts(bals)
        optimized == _merge_transactions(simplified)
    IN  optimized

(***************************************************************************)
(* An invocation of minimize_transactions, statement by statement.  A      *)
(* frame holds the dict the caller passed (balances, the same object the   *)
(* caller keeps), the locals of minimize_transactions (cycles, simplified, *)
(* optimized) and the locals of simplify_debts while its loop runs (loop); *)
(* "passed" is the caller's record of what the dict held at the call.      *)
(***************************************************************************)
NoCall ==
    [pc |-> "none", passed |-> <<>>, balances |-> <<>>, cycles |-> <<>>,
     loop |-> LoopInit(<<>>), simplified |-> <<>>,
     optimized |-> [status |-> "none", value |-> <<>>]]

\* line 129: minimize_transactions(balances) is entered
Enter(b) == [NoCall EXCEPT !.pc = "find_cycles", !.passed = b, !.balances = b]

RunFindCyclesPopping(frame) ==
    [frame EXCEPT !.cycles = find_cycles(frame.balances),
                  !.balances = SelectSeq(@, LAMBDA e : e.bal <= 0),
                  !.pc = "simplify_debts"]

\* line 141: cycles = DebtSimplifier.find_cycles(balances); find_cycles only
\* reads balances (balances.items() at 91 and 93, balances.get at 115)
RunFindCycles(frame) ==
    [frame EXCEPT !.cycles = find_cycles(frame.balances),
                  !.pc = "simplify_debts"]

EnterSimplifyInPlace(frame) ==
    LET net_balances == FilterZero(frame.balances)
    IN  IF net_balances = <<>>
        THEN [frame EXCEPT !.balances = net_balances,
                           !.simplified = <<>>, !.pc = "_merge_transactions"]
        ELSE [frame EXCEPT !.balances = net_balances,
                           !.loop = LoopInit(net_balances), !.pc = "loop"]

\* lines 144 and 28-50: simplify_debts(balances) up to the loop; net_balances,
\* creditors and debtors are new lists built from balances.items()
EnterSimplify(frame) ==
    LET net_balances == FilterZero(frame.balances)
    IN  IF net_balances = <<>>
        THEN [frame EXCEPT !.simplified = <<>>, !.pc = "_merge_transactions"]
        ELSE [frame EXCEPT !.loop = LoopInit(net_balances), !.pc = "loop"]

\* lines 52-76: one test of the while condition, then one iteration or the
\* return of simplified
Iterate(frame) ==
    IF LoopGuard(frame.loop)
    THEN [frame EXCEPT !.loop = LoopStep(@)]
    ELSE [frame EXCEPT !.simplified = frame.loop.simplified,
                       !.pc = "_merge_transactions"]

\* lines 147-151: optimized = _merge_transactions(simplified); return
\* optimized; _merge_transactions only reads the list (164-170)
RunMerge(frame) ==
    [frame EXCEPT !.optimized = _merge_transactions(frame.simplified),
                  !.pc = "return"]

Globals(cs, c, frame) ==
    [k \in DOMAIN cs |->
        IF k = c THEN frame ELSE [cs[k] EXCEPT !.loop = frame.loop]]

\* the frame of invocation c; every name the methods assign is a local
\* (DebtSimplifier has no class or module attribute, lines 10-236)
Locals(cs, c, frame) == [cs EXCEPT ![c] = frame]

(***************************************************************************)
(* group_balances (payments/views.py): aggregation of the unsettled shares *)
(* of a group into net balances, handed to minimize_transactions.          *)
(***************************************************************************)
SetTo(d, key, delta) ==
    IF \E i \in 1..Len(d) : d[i].uid = key
    THEN [i \in 1..Len(d) |->
            IF d[i].uid = key THEN [d[i] EXCEPT !.bal = delta] ELSE d[i]]
    ELSE Append(d, [uid |-> key, bal |-> delta])

\* net_balances[key] += delta on a defaultdict(lambda: Decimal('0'))
AddTo(d, key, delta) ==
    IF \E i \in 1..Len(d) : d[i].uid = key
    THEN [i \in 1..Len(d) |->
            IF d[i].uid = key THEN [d[i] EXCEPT !.bal = @ + delta] ELSE d[i]]
    ELSE Append(d, [uid |-> key, bal |-> delta])

\* views.py lines 310-315: one share of the loop over shares
AddShare(d, share) ==
    IF share.paid_by # share.user
    THEN AddTo(AddTo(d, share.user, share.amount), share.paid_by, -share.amount)
    ELSE d

\* views.py lines 308-315
RECURSIVE Aggregate(_)
Aggregate(shs) ==
    IF shs = <<>> THEN <<>>
    ELSE AddShare(Aggregate(SubSeq(shs, 1, Len(shs) - 1)), shs[Len(shs)])

KeepAll(d) == d

\* views.py lines 317-322: "Filter out zero balances"
FilterNet(d) == SelectSeq(d, LAMBDA e : Significant(Abs(e.bal)))

\* views.py lines 300-325: what group_balances computes from the shares
group_balances(shs) ==
    LET net_balances == FilterNet(Aggregate(shs))
        simplified_transactions == minimize_transactions(net_balances)
    IN  [status |-> IF simplified_transactions.status = "ok" THEN "200" ELSE "500",
         shares |-> shs,
         net_balances |-> net_balances,
         simplified_transactions |-> simplified_transactions.value]

(***************************************************************************)
(* user_balances (payments/views.py): what the requesting user owes to and *)
(* is owed by each counterparty, netted and handed to                      *)
(* minimize_transactions.                                                   *)
(***************************************************************************)
\* views.py lines 151-154: the unsettled shares the user is involved in
SharesOf(shs, user) ==
    SelectSeq(shs, LAMBDA share : share.user = user \/ share.paid_by = user)

\* balances[key][field] += amount on a
\* defaultdict(lambda: {'owed': Decimal('0'), 'owes': Decimal('0')})
AddAmount(d, key, field, amount) ==
    LET owed == IF field = "owed" THEN amount ELSE 0
        owes == IF field = "owes" THEN amount ELSE 0
    IN  IF \E i \in 1..Len(d) : d[i].uid = key
        THEN [i \in 1..Len(d) |->
                IF d[i].uid = key
                THEN [d[i] EXCEPT !.owed = @ + owed, !.owes = @ + owes]
                ELSE d[i]]
        ELSE Append(d, [uid |-> key, owed |-> owed, owes |-> owes])

\* views.py lines 186-201: one share of the loop over shares_qs
AddUserShare(d, share, user) ==
    IF share.user = user
    THEN IF share.paid_by # user
         THEN AddAmount(d, share.paid_by, "owed", share.amount)
         ELSE d
    ELSE IF share.paid_by = user
         THEN AddAmount(d, share.user, "owes", share.amount)
         ELSE d

\* views.py lines 168-203
RECURSIVE PerUser(_, _)
PerUser(shs, user) ==
    IF shs = <<>> THEN <<>>
    ELSE AddUserShare(PerUser(SubSeq(shs, 1, Len(shs) - 1), user),
                      shs[Len(shs)], user)

\* views.py lines 206-210: net = owes - owed, kept when abs(net) > 0.01
NetOf(d) ==
    LET nets == [i \in 1..Len(d) |->
                    [uid |-> d[i].uid, bal |-> d[i].owes - d[i].owed]]
    IN  SelectSeq(nets, LAMBDA e : Significant(Abs(e.bal)))

\* views.py lines 151-213: what user_balances computes from the shares
user_balances(shs, user) ==
    LET shares_qs == SharesOf(shs, user)
        net_balances == NetOf(PerUser(shares_qs, user))
        simplified_transactions == minimize_transactions(net_balances)
    IN  [status |-> IF simplified_transactions.status = "ok" THEN "200" ELSE "500",
         shares |-> shares_qs,
         net_balances |-> net_balances,
         simplified_transactions |-> simplified_transactions.value]

(***************************************************************************)
(* IdempotencyMiddleware (core/middleware.py).  A header value is a        *)
(* sequence of characters; a path is a stem followed by a number of "/";   *)
(* the cache holds one entry per key, with the time at which it expires.   *)
(***************************************************************************)
IDEMPOTENCY_CACHE_PREFIX == "idempotency"

IDEMPOTENCY_TTL_SECONDS == 24 * 3600

\* str.strip(): without the leading and the trailing blanks
RECURSIVE lstrip(_)
lstrip(chars) ==
    IF chars # <<>> /\ Head(chars) = " " THEN lstrip(Tail(chars)) ELSE chars

RECURSIVE rstrip(_)
rstrip(chars) ==
    IF chars # <<>> /\ chars[Len(chars)] = " "
    THEN rstrip(SubSeq(chars, 1, Len(chars) - 1))
    ELSE chars

strip(chars) == lstrip(rstrip(chars))

\* line 27: request.path.rstrip('/')
rstrip_slash(path) == [path EXCEPT !.slashes = 0]

\* line 36: f'{IDEMPOTENCY_CACHE_PREFIX}:{request.user.id}:{key}'
CacheKey(user, key) == <<IDEMPOTENCY_CACHE_PREFIX, user.id, key>>

\* None, where a response or a cache key is expected
None == <<>>

\* cache.get(cache_key) at time t: the value of the entry that has not
\* expired, None otherwise
cache_get(c, cache_key, t) ==
    IF \E e \in c : e.key = cache_key /\ t < e.expires
    THEN (CHOOSE e \in c : e.key = cache_key /\ t < e.expires).value
    ELSE None

cache_skip(c, cache_key, value, timeout, t) == c

\* cache.set(cache_key, value, timeout=timeout) at time t
cache_set(c, cache_key, value, timeout, t) ==
    {e \in c : e.key # cache_key}
        \cup {[key |-> cache_key, value |-> value, expires |-> t + timeout]}

Is2xx(http_response) ==
    200 <= http_response.status_code /\ http_response.status_code < 300

\* lines 24-43: process_request; what the middleware chain holds for the
\* request afterwards: the response if process_request returned one, the
\* attribute request._idempotency_cache_key if it was set
process_request(request, c, t) ==
    LET passed == [request |-> request, pc |-> "view", ran_view |-> FALSE,
                   cache_key |-> None, response |-> None]
        key == strip(request.header)
        cache_key == CacheKey(request.user, key)
        cached == cache_get(c, cache_key, t)
    IN  IF request.method # "POST" THEN passed
        ELSE IF rstrip_slash(request.path)
                    # [stem |-> "/api/expenses", slashes |-> 0] THEN passed
        ELSE IF request.header = <<>> \/ key = <<>> THEN passed
        ELSE IF ~request.user.is_authenticated THEN passed
        ELSE IF cached # None
             THEN [passed EXCEPT !.pc = "response", !.response = cached]
             ELSE [passed EXCEPT !.cache_key = cache_key]

\* lines 45-56: process_response, the cache after it
process_response(r, c, t) ==
    IF r.cache_key = None THEN c
    ELSE IF Is2xx(r.response)
         THEN cache_set(c, r.cache_key, r.response, IDEMPOTENCY_TTL_SECONDS, t)
         ELSE c

(***************************************************************************)
(* Inputs.                                                                 *)
(***************************************************************************)
\* a balances dict over the first n users, keys inserted in the order of UserIds
DictOf(f, n) == [i \in 1..n |-> [uid |-> UserIds[i], bal |-> f[i]]]

BalanceDicts ==
    {DictOf(f, NumUsers) : f \in [1..NumUsers -> (-MaxAmt)..MaxAmt]}

\* any balances of four users, balanced or not, for one invocation that is
\* followed iteration by iteration
LoopUsers == <<"A", "B", "C", "D">>

LoopDicts ==
    {DictOf(f, Len(LoopUsers)) :
        f \in [1..Len(LoopUsers) -> (-MaxLoopAmt)..MaxLoopAmt]}

\* two callers, and the ledgers each of them passes: balances of three users
\* of its own that sum to zero
Callers == {1, 2}

CallDicts(c) ==
    {[i \in 1..3 |-> [uid |-> UserIds[3 * (c - 1) + i], bal |-> f[i]]] :
        f \in {g \in [1..3 -> {2 * k : k \in (-MaxCallAmt)..MaxCallAmt}] :
                 g[1] + g[2] + g[3] = 0}}

\* the sequences of n balances of at most max, listed from the largest down
RECURSIVE Descending(_, _)
Descending(n, max) ==
    IF n = 0 THEN {<<>>}
    ELSE UNION {{<<v>> \o s : s \in Descending(n - 1, v)} :
                   v \in (-MaxLedgerAmt)..max}

\* ledgers: balances dicts that sum to zero, entered from the largest debtor
\* (positive) down to the largest creditor (negative)
LedgerDicts ==
    {DictOf(f, NumLedgerUsers) :
        f \in {g \in Descending(NumLedgerUsers, MaxLedgerAmt) :
                 SumBal(DictOf(g, NumLedgerUsers)) = 0}}

\* the participants of the transaction lists and of the shares
Participants == <<"A", "B", "C">>

\* the same entries, inserted in the order p
Reordered(bals, p) == [i \in 1..Len(bals) |-> bals[p[i]]]

\* balances dicts of three users whose keys were inserted in any order
OrderDicts ==
    {Reordered(DictOf(f, Len(Participants)), p) :
        f \in [1..Len(Participants) -> (-MaxOrderAmt)..MaxOrderAmt],
        p \in Permutations(1..Len(Participants))}

\* "from" pays "to": payments between two different users, of 0.00 and more
Txns ==
    {t \in [from : Range(Participants), to : Range(Participants),
            amount : {float(a) : a \in 0..MaxMergeAmt}] : t.from # t.to}

\* the users of a transaction list, in the order in which the list names them
RECURSIVE Named(_)
Named(txns) ==
    IF txns = <<>> THEN <<>>
    ELSE <<Head(txns).from, Head(txns).to>> \o Named(Tail(txns))

\* user ids are opaque to _merge_transactions (it only compares them), so the
\* lists are taken up to renaming: the first user a list names is "A", the
\* next new one "B", then "C"
TxnLists ==
    {t \in UNION {[1..n -> Txns] : n \in 0..MaxTxns} :
        LET named == Dedup(Named(t))
        IN  named = SubSeq(Participants, 1, Len(named))}

\* payments above the tolerance, for the calls of _merge_transactions on its
\* own output
RepeatTxns ==
    {t \in [from : Range(Participants), to : Range(Participants),
            amount : {float(a) : a \in (Eps + 1)..MaxRepeatAmt}] : t.from # t.to}

RepeatLists ==
    {t \in UNION {[1..n -> RepeatTxns] : n \in 0..MaxRepeatTxns} :
        LET named == Dedup(Named(t))
        IN  named = SubSeq(Participants, 1, Len(named))}

\* the requests: POST /api/expenses/ by user 1 with the key "k", and the
\* requests that differ from it in one respect (the method, the trailing
\* slash, the user, the header)
ExpensePost ==
    [method |-> "POST", path |-> [stem |-> "/api/expenses", slashes |-> 1],
     user |-> [id |-> 1, is_authenticated |-> TRUE], header |-> <<"k">>]

Requests ==
    {ExpensePost}
        \cup {[ExpensePost EXCEPT !.method = "GET"]}
        \cup {[ExpensePost EXCEPT !.path.slashes = 0]}
        \cup {[ExpensePost EXCEPT !.user = u] :
                 u \in {[id |-> 2, is_authenticated |-> TRUE],
                        [id |-> 0, is_authenticated |-> FALSE]}}
        \cup {[ExpensePost EXCEPT !.header = h] :
                 h \in {<<>>, <<" ">>, <<" ", "k">>, <<"j">>}}

\* the amounts of the shares: around the tolerance, and 20.00 and 30.00
ShareAmounts == ((-1)..MaxShareAmt) \cup {2000, 3000}

NoResult == [status |-> "none", value |-> <<>>]

NoResponse ==
    [status |-> "none", shares |-> <<>>, net_balances |-> <<>>,
     simplified_transactions |-> <<>>]

(***************************************************************************)
(* State machine.                                                          *)
(***************************************************************************)
Init ==
    /\ method = "none"
    /\ balances = <<>>
    /\ transactions = <<>>
    /\ result = NoResult
    /\ shares = <<>>
    /\ response = NoResponse
    /\ calls = [c \in Callers |-> NoCall]
    /\ requests = <<>>
    /\ cache = {}
    /\ stored = <<>>
    /\ now = 0

\* a call of DebtSimplifier.simplify_debts(balances)
SimplifyDebts ==
    /\ method = "none"
    /\ \E b \in BalanceDicts :
        /\ method' = "simplify_debts"
        /\ balances' = b
        /\ transactions' = <<>>
        /\ result' = [status |-> "ok", value |-> simplify_debts(b)]
        /\ UNCHANGED <<shares, response, calls, idempotency>>

\* a call of DebtSimplifier.find_cycles(balances)
FindCycles ==
    /\ method = "none"
    /\ \E b \in BalanceDicts :
        /\ method' = "find_cycles"
        /\ balances' = b
        /\ transactions' = <<>>
        /\ result' = [status |-> "ok", value |-> find_cycles(b)]
        /\ UNCHANGED <<shares, response, calls, idempotency>>

\* a call of DebtSimplifier.minimize_transactions(balances)
MinimizeTransactions ==
    /\ method = "none"
    /\ \E b \in BalanceDicts :
        /\ method' = "minimize_transactions"
        /\ balances' = b
        /\ transactions' = <<>>
        /\ result' = minimize_transactions(b)
        /\ UNCHANGED <<shares, response, calls, idempotency>>

\* a call of DebtSimplifier._merge_transactions(transactions)
MergeTransactions ==
    /\ method = "none"
    /\ \E t \in TxnLists :
        /\ method' = "_merge_transactions"
        /\ balances' = <<>>
        /\ transactions' = t
        /\ result' = _merge_transactions(t)
        /\ UNCHANGED <<shares, response, calls, idempotency>>

\* the minimizer and the consolidator, each called on its own
Next ==
    \/ SimplifyDebts
    \/ MergeTransactions

Spec == Init /\ [][Next]_vars

\* the facade and the cycle detection it runs first
NextMinimize ==
    \/ MinimizeTransactions
    \/ FindCycles

SpecMinimize == Init /\ [][NextMinimize]_vars

\* a call of DebtSimplifier.simplify_debts on a ledger that sums to zero
SettleLedger ==
    /\ method = "none"
    /\ \E b \in LedgerDicts :
        /\ method' = "simplify_debts"
        /\ balances' = b
        /\ transactions' = <<>>
        /\ result' = [status |-> "ok", value |-> simplify_debts(b)]
        /\ UNCHANGED <<shares, response, calls, idempotency>>

NextLedger == SettleLedger

SpecLedger == Init /\ [][NextLedger]_vars

\* expenses/views.py lines 224-230: ExpenseShare.objects.create in
\* split_by_amount, with the amount of the request
CreateShare ==
    /\ Len(shares) < MaxShares
    /\ \E u \in Range(Participants), p \in Range(Participants),
          a \in ShareAmounts :
          shares' = Append(shares, [user |-> u, paid_by |-> p, amount |-> a])
    /\ UNCHANGED <<method, balances, transactions, result, response, calls, idempotency>>

\* GET group balances: the view on the shares as they are now
GroupBalances ==
    /\ response' = group_balances(shares)
    /\ UNCHANGED <<method, balances, transactions, result, shares, calls, idempotency>>

NextGroup ==
    \/ CreateShare
    \/ GroupBalances

SpecGroup == Init /\ [][NextGroup]_vars

\* a call of DebtSimplifier._merge_transactions(transactions) on payments
\* above the tolerance
MergeOnce ==
    /\ method = "none"
    /\ \E t \in RepeatLists :
        /\ method' = "_merge_transactions"
        /\ balances' = <<>>
        /\ transactions' = t
        /\ result' = _merge_transactions(t)
        /\ UNCHANGED <<shares, response, calls, idempotency>>

\* the caller passes the list it got back to _merge_transactions again
MergeAgain ==
    /\ method = "_merge_transactions"
    /\ result.status = "ok"
    /\ method' = "_merge_transactions again"
    /\ transactions' = result.value
    /\ result' = _merge_transactions(result.value)
    /\ UNCHANGED <<balances, shares, response, calls, idempotency>>

NextRepeat ==
    \/ MergeOnce
    \/ MergeAgain

SpecRepeat == Init /\ [][NextRepeat]_vars

\* a call of DebtSimplifier.simplify_debts on a dict built in any key order
SimplifyOrdered ==
    /\ method = "none"
    /\ \E b \in OrderDicts :
        /\ method' = "simplify_debts"
        /\ balances' = b
        /\ transactions' = <<>>
        /\ result' = [status |-> "ok", value |-> simplify_debts(b)]
        /\ UNCHANGED <<shares, response, calls, idempotency>>

\* the next call of simplify_debts, on a dict that holds the same entries
\* inserted in another order
SimplifyReordered ==
    /\ method = "simplify_debts"
    /\ \E p \in Permutations(1..Len(balances)) :
        /\ Reordered(balances, p) # balances
        /\ balances' = Reordered(balances, p)
        /\ result' = [status |-> "ok",
                      value |-> simplify_debts(Reordered(balances, p))]
        /\ UNCHANGED <<method, transactions, shares, response, calls, idempotency>>

NextOrder ==
    \/ SimplifyOrdered
    \/ SimplifyReordered

SpecOrder == Init /\ [][NextOrder]_vars

\* GET user balances, by one of the participants
UserBalances ==
    /\ \E user \in Range(Participants) :
          response' = user_balances(shares, user)
    /\ UNCHANGED <<method, balances, transactions, result, shares, calls, idempotency>>

\* the two views that hand a net balances map to minimize_transactions
NextViews ==
    \/ CreateShare
    \/ GroupBalances
    \/ UserBalances

SpecViews == Init /\ [][NextViews]_vars

\* caller c calls DebtSimplifier.minimize_transactions(b)
Call ==
    \E c \in Callers :
        /\ calls[c].pc = "none"
        /\ \E b \in CallDicts(c) : calls' = Locals(calls, c, Enter(b))
        /\ UNCHANGED <<method, balances, transactions, result, shares, response, idempotency>>

StepFindCycles ==
    \E c \in Callers :
        /\ calls[c].pc = "find_cycles"
        /\ calls' = Locals(calls, c, RunFindCycles(calls[c]))
        /\ UNCHANGED <<method, balances, transactions, result, shares, response, idempotency>>

StepSimplify ==
    \E c \in Callers :
        /\ calls[c].pc = "simplify_debts"
        /\ calls' = Locals(calls, c, EnterSimplify(calls[c]))
        /\ UNCHANGED <<method, balances, transactions, result, shares, response, idempotency>>

StepLoop ==
    \E c \in Callers :
        /\ calls[c].pc = "loop"
        /\ calls' = Locals(calls, c, Iterate(calls[c]))
        /\ UNCHANGED <<method, balances, transactions, result, shares, response, idempotency>>

StepMerge ==
    \E c \in Callers :
        /\ calls[c].pc = "_merge_transactions"
        /\ calls' = Locals(calls, c, RunMerge(calls[c]))
        /\ UNCHANGED <<method, balances, transactions, result, shares, response, idempotency>>

\* two invocations of minimize_transactions, their statements interleaved
NextCalls ==
    \/ Call
    \/ StepFindCycles
    \/ StepSimplify
    \/ StepLoop
    \/ StepMerge

SpecCalls == Init /\ [][NextCalls]_vars

\* a request arrives and IdempotencyMiddleware.process_request runs on it
ProcessRequest ==
    /\ Len(requests) < MaxRequests
    /\ \E request \in Requests :
          requests' = Append(requests, process_request(request, cache, now))
    /\ UNCHANGED <<method, balances, transactions, result, shares, response,
                   calls, cache, stored, now>>

\* the view runs: ExpenseViewSet.create answers 201 with the new expense or
\* 400 (expenses/views.py 34-41); any other view answers 200
RunView ==
    \E i \in 1..Len(requests) :
        /\ requests[i].pc = "view"
        /\ \E http_response \in
              IF requests[i].request.method = "POST"
              THEN {[status_code |-> 201,
                     content |-> <<"expense",
                        1 + Cardinality({j \in 1..Len(requests) :
                              /\ requests[j].ran_view
                              /\ requests[j].response # None
                              /\ requests[j].response.status_code = 201})>>],
                    [status_code |-> 400, content |-> <<"errors">>]}
              ELSE {[status_code |-> 200, content |-> <<"expenses">>]} :
              requests' = [requests EXCEPT ![i].pc = "response",
                                           ![i].ran_view = TRUE,
                                           ![i].response = http_response]
        /\ UNCHANGED <<method, balances, transactions, result, shares, response,
                       calls, cache, stored, now>>

\* IdempotencyMiddleware.process_response runs and the response is sent
ProcessResponse ==
    \E i \in 1..Len(requests) :
        /\ requests[i].pc = "response"
        /\ cache' = process_response(requests[i], cache, now)
        /\ stored' = IF requests[i].cache_key # None /\ Is2xx(requests[i].response)
                     THEN Append(stored,
                                 [user |-> requests[i].request.user.id,
                                  key |-> strip(requests[i].request.header),
                                  value |-> requests[i].response,
                                  at |-> now])
                     ELSE stored
        /\ requests' = [requests EXCEPT ![i].pc = "sent"]
        /\ UNCHANGED <<method, balances, transactions, result, shares, response,
                       calls, now>>

\* half of the time to live passes
Tick ==
    /\ now < MaxTicks * (IDEMPOTENCY_TTL_SECONDS \div 2)
    /\ now' = now + IDEMPOTENCY_TTL_SECONDS \div 2
    /\ UNCHANGED <<method, balances, transactions, result, shares, response,
                   calls, requests, cache, stored>>

NextIdempotency ==
    \/ ProcessRequest
    \/ RunView
    \/ ProcessResponse
    \/ Tick

SpecIdempotency == Init /\ [][NextIdempotency]_vars

\* the first caller calls DebtSimplifier.minimize_transactions(b) while no
\* other invocation runs
CallAlone ==
    /\ \A c \in Callers : calls[c].pc = "none"
    /\ \E b \in LoopDicts : calls' = Locals(calls, 1, Enter(b))
    /\ UNCHANGED <<method, balances, transactions, result, shares, response, idempotency>>

\* one invocation of minimize_transactions, statement by statement
NextLoop ==
    \/ CallAlone
    \/ StepFindCycles
    \/ StepSimplify
    \/ StepLoop
    \/ StepMerge

SpecLoop == Init /\ [][NextLoop]_vars

(***************************************************************************)
(* Vocabulary of the properties.                                           *)
(***************************************************************************)
\* the amount of a transaction, as a number of hundredths
AmountOf(txn) == Decimal(str(txn.amount))

RECURSIVE Paid(_, _)
Paid(txns, u) ==
    IF txns = <<>> THEN 0
    ELSE (IF Head(txns).from = u THEN AmountOf(Head(txns)) ELSE 0) + Paid(Tail(txns), u)

RECURSIVE Received(_, _)
Received(txns, u) ==
    IF txns = <<>> THEN 0
    ELSE (IF Head(txns).to = u THEN AmountOf(Head(txns)) ELSE 0) + Received(Tail(txns), u)

NetFlow(txns, u) == Received(txns, u) - Paid(txns, u)

\* the balance of u after the transactions were applied to bals:
\* "from" decreases by the amount, "to" increases by it
BalanceAfter(bals, txns, u) == Lookup(bals, u) - Paid(txns, u) + Received(txns, u)

Keys(bals) == {bals[i].uid : i \in 1..Len(bals)}

\* N: the participants whose absolute balance exceeds the tolerance
NumAboveTolerance(bals) == Cardinality({i \in 1..Len(bals) : Abs(bals[i].bal) > Eps})

NonZero(bals) == {i \in 1..Len(bals) : bals[i].bal # 0}

RECURSIVE SumAt(_, _)
SumAt(bals, P) ==
    IF P = {} THEN 0
    ELSE LET i == CHOOSE j \in P : TRUE IN bals[i].bal + SumAt(bals, P \ {i})

SetMax(S) == CHOOSE m \in S : \A k \in S : k <= m

\* the largest number of groups the participants P split into, each summing to zero
RECURSIVE MaxZeroGroups(_, _)
MaxZeroGroups(bals, P) ==
    IF P = {} THEN 0
    ELSE LET x == CHOOSE j \in P : TRUE
             groups == {T \in SUBSET (P \ {x}) : SumAt(bals, T \cup {x}) = 0}
         IN  IF groups = {} THEN 0
             ELSE SetMax({1 + MaxZeroGroups(bals, P \ (T \cup {x})) : T \in groups})

\* the fewest payments that zero every balance of a ledger that sums to zero:
\* a group of k participants summing to zero needs k - 1 payments
MinTxns(bals) == Cardinality(NonZero(bals)) - MaxZeroGroups(bals, NonZero(bals))

AllSignificantOrZero(bals) ==
    \A i \in 1..Len(bals) : bals[i].bal = 0 \/ Abs(bals[i].bal) > Eps

(***************************************************************************)
(* C1: for a NetBalance map that sums to zero (positive = net debtor),     *)
(* applying the transactions simplify_debts returns, "from" minus amount   *)
(* and "to" plus amount, leaves every balance at zero within 0.01.         *)
(***************************************************************************)
C1_SettlementCorrect ==
    (method = "simplify_debts" /\ SumBal(balances) = 0 /\ AllSignificantOrZero(balances))
        => \A u \in Keys(balances) : Abs(BalanceAfter(balances, result.value, u)) <= Eps

(***************************************************************************)
(* C2: in every transaction of the engine for a map built by group         *)
(* aggregation, "from" is a net debtor (positive balance) and "to" a net   *)
(* creditor (negative balance); "A owes B 30" gives exactly A to B 30, and *)
(* "A owes C 20, B owes C 20" gives exactly A to C 20 and B to C 20.       *)
(***************************************************************************)
Owes(debtor, creditor, amount) == [user |-> debtor, paid_by |-> creditor, amount |-> amount]

C2_FromDebtorToCreditor ==
    response.status # "none" =>
        /\ \A i \in 1..Len(response.simplified_transactions) :
              /\ Lookup(response.net_balances, response.simplified_transactions[i].from) > 0
              /\ Lookup(response.net_balances, response.simplified_transactions[i].to) < 0
        /\ response.shares = <<Owes("A", "B", 3000)>>
              => response.simplified_transactions = <<MakeTxn("A", "B", float(3000))>>
        /\ response.shares = <<Owes("A", "C", 2000), Owes("B", "C", 2000)>>
              => /\ Len(response.simplified_transactions) = 2
                 /\ Range(response.simplified_transactions) =
                        {MakeTxn("A", "C", float(2000)), MakeTxn("B", "C", float(2000))}

(***************************************************************************)
(* C3: simplify_debts returns at most N - 1 transactions, N the number of  *)
(* participants whose absolute balance exceeds the tolerance, and none     *)
(* when N is 0.                                                            *)
(***************************************************************************)
C3_AtMostNMinusOne ==
    method = "simplify_debts" =>
        IF NumAboveTolerance(balances) = 0
        THEN Len(result.value) = 0
        ELSE Len(result.value) <= NumAboveTolerance(balances) - 1

C3_Witness ==
    /\ method = "simplify_debts"
    /\ NumAboveTolerance(balances) = 3
    /\ Len(result.value) = 2

(***************************************************************************)
(* C4: for obligations with strictly positive amounts, the NetBalance map  *)
(* that group aggregation hands to the minimizer, after the entries within *)
(* tolerance were removed, sums to zero within 0.01.                       *)
(***************************************************************************)
C4_Conservation ==
    (/\ response.status # "none"
     /\ \A i \in 1..Len(response.shares) : response.shares[i].amount > 0)
        => Abs(SumBal(response.net_balances)) <= Eps

(***************************************************************************)
(* C5: the minimizer rejects a NetBalance map whose values do not sum to   *)
(* zero within 0.01: it returns an unbalanced-ledger error, never a list.  *)
(***************************************************************************)
C5_RejectsUnbalanced ==
    (/\ method = "simplify_debts"
     /\ Abs(SumBal(balances)) > Eps)
        => result.status = "UnbalancedLedger"

(***************************************************************************)
(* C6: aggregation rejects a batch with an obligation whose amount is zero *)
(* or negative: the batch fails with an invalid-obligation error and no    *)
(* NetBalance is produced or passed on to the minimizer.                   *)
(***************************************************************************)
C6_RejectsNonPositive ==
    (/\ response.status # "none"
     /\ \E i \in 1..Len(response.shares) : response.shares[i].amount <= 0)
        => /\ response.status = "InvalidObligation"
           /\ response.net_balances = <<>>
           /\ response.simplified_transactions = <<>>

(***************************************************************************)
(* C7: for a NetBalance map that sums to zero, the list simplify_debts     *)
(* returns has minimum cardinality: no set of payments that zeroes every   *)
(* balance has fewer transactions.                                         *)
(***************************************************************************)
C7_MinimumCardinality ==
    (method = "simplify_debts" /\ SumBal(balances) = 0)
        => Len(result.value) <= MinTxns(balances)

\* C7 as amended: for a NetBalance map that sums to zero in which at most four
\* participants have a balance other than zero, the list simplify_debts returns
\* has no more transactions than the fewest that zero every balance.
C7_MinimumUpToFour ==
    (/\ method = "simplify_debts"
     /\ SumBal(balances) = 0
     /\ Cardinality(NonZero(balances)) <= 4)
        => Len(result.value) <= MinTxns(balances)

C7_Witness ==
    /\ method = "simplify_debts"
    /\ SumBal(balances) = 0
    /\ Cardinality(NonZero(balances)) = 4
    /\ MinTxns(balances) = 2
    /\ Len(result.value) = 2

(***************************************************************************)
(* C8: no transaction in the output of minimize_transactions has "from"    *)
(* equal to "to".                                                          *)
(***************************************************************************)
C8_NoSelfPayment ==
    method = "minimize_transactions" =>
        \A i \in 1..Len(result.value) : result.value[i].from # result.value[i].to

C8_Witness ==
    /\ method = "minimize_transactions"
    /\ result.status = "ok"
    /\ Len(result.value) = 2

(***************************************************************************)
(* C9: every transaction emitted by simplify_debts and by                  *)
(* _merge_transactions has an amount strictly greater than 0; a candidate  *)
(* whose amount is not positive is dropped.                                *)
(***************************************************************************)
C9_PositiveAmounts ==
    method \in {"simplify_debts", "_merge_transactions"} =>
        \A i \in 1..Len(result.value) : AmountOf(result.value[i]) > 0

C9_Witness ==
    /\ method = "_merge_transactions"
    /\ \E i \in 1..Len(transactions) : AmountOf(transactions[i]) = 0
    /\ result.status = "ok"
    /\ Len(result.value) = 2

(***************************************************************************)
(* C10: each participant's net flow (received minus paid) is the same in   *)
(* the output of _merge_transactions as in its input.                      *)
(***************************************************************************)
C10_NetFlowPreserved ==
    (/\ method = "_merge_transactions"
     /\ result.status = "ok"
     /\ \A i \in 1..Len(transactions) : AmountOf(transactions[i]) > Eps)
        => \A u \in Range(Participants) :
              NetFlow(result.value, u) = NetFlow(transactions, u)

(***************************************************************************)
(* C11: _merge_transactions run on its own output returns that output      *)
(* again: Consolidate(Consolidate(T)) = Consolidate(T).                    *)
(***************************************************************************)
C11_Idempotent ==
    method = "_merge_transactions again" =>
        result = [status |-> "ok", value |-> transactions]

(***************************************************************************)
(* C12: for a list of two payments A to B and B to C, both above the       *)
(* tolerance, with A, B and C different and no payment A to C,             *)
(* _merge_transactions returns a payment A to C of the smaller amount; for *)
(* equal amounts it returns that payment alone ("A->B $10, B->C $10        *)
(* becomes A->C $10").                                                     *)
(***************************************************************************)
C12_ChainCollapsed ==
    (/\ method = "_merge_transactions"
     /\ Len(transactions) = 2
     /\ transactions[1].to = transactions[2].from
     /\ transactions[1].from # transactions[2].to
     /\ AmountOf(transactions[1]) > Eps
     /\ AmountOf(transactions[2]) > Eps)
        => LET a_to_b == AmountOf(transactions[1])
               b_to_c == AmountOf(transactions[2])
               a_to_c == MakeTxn(transactions[1].from, transactions[2].to,
                                 float(Min2(a_to_b, b_to_c)))
           IN  /\ result.status = "ok"
               /\ \E i \in 1..Len(result.value) : result.value[i] = a_to_c
               /\ a_to_b = b_to_c => result.value = <<a_to_c>>

(***************************************************************************)
(* C13: a participant whose obligations net to less than 0.01 in absolute  *)
(* value has no entry in the net balances of group_balances and is neither *)
(* "from" nor "to" of a returned transaction; when that holds of every     *)
(* participant, no transaction is returned.                                *)
(***************************************************************************)
\* what debtor u owes in all, less what is owed to creditor u, over the
\* obligations between two different participants
RECURSIVE NetOwed(_, _)
NetOwed(obligations, u) ==
    IF obligations = <<>> THEN 0
    ELSE LET o == Head(obligations)
         IN  (IF o.user # o.paid_by /\ o.user = u THEN o.amount ELSE 0)
             - (IF o.user # o.paid_by /\ o.paid_by = u THEN o.amount ELSE 0)
             + NetOwed(Tail(obligations), u)

Involved(txns) == {txns[i].from : i \in 1..Len(txns)} \cup {txns[i].to : i \in 1..Len(txns)}

C13_SettledExcluded ==
    response.status # "none" =>
        /\ \A u \in Range(Participants) :
              Abs(NetOwed(response.shares, u)) < Eps =>
                  /\ u \notin Keys(response.net_balances)
                  /\ u \notin Involved(response.simplified_transactions)
        /\ (\A u \in Range(Participants) : Abs(NetOwed(response.shares, u)) < Eps)
              => response.simplified_transactions = <<>>

\* A owes B 20, B owes C 20: B is the middle of the chain
C13_Witness ==
    /\ response.status = "200"
    /\ response.shares = <<Owes("A", "B", 2000), Owes("B", "C", 2000)>>
    /\ Keys(response.net_balances) = {"A", "C"}
    /\ Len(response.simplified_transactions) = 1

(***************************************************************************)
(* C14: the aggregation loop of group_balances gives every participant     *)
(* exactly the sum of the amounts they owe minus the sum of the amounts    *)
(* owed to them, over the obligations with debtor # creditor, and every    *)
(* entry of the returned net balances is that difference; obligations      *)
(* between the same pair add up, and a self-obligation changes nothing and *)
(* does not fail the request.                                              *)
(***************************************************************************)
C14_NetBalanceExact ==
    response.status # "none" =>
        /\ response.status = "200"
        /\ \A u \in Range(Participants) :
              Lookup(Aggregate(response.shares), u) = NetOwed(response.shares, u)
        /\ \A i \in 1..Len(response.net_balances) :
              response.net_balances[i].bal =
                  NetOwed(response.shares, response.net_balances[i].uid)

\* A owes B 0.01 twice
C14_Witness ==
    /\ response.status = "200"
    /\ response.shares = <<Owes("A", "B", 1), Owes("A", "B", 1)>>
    /\ Lookup(response.net_balances, "A") = 2
    /\ Lookup(response.net_balances, "B") = -2

(***************************************************************************)
(* C15: two calls of simplify_debts on NetBalance maps that hold the same  *)
(* entries in different insertion orders return the same transaction list. *)
(***************************************************************************)
C15_OrderIndependent ==
    [][(/\ method = "simplify_debts"
        /\ method' = "simplify_debts"
        /\ Range(balances') = Range(balances))
            => result' = result]_vars

(***************************************************************************)
(* C16: an invocation of minimize_transactions returns exactly             *)
(* _merge_transactions(simplify_debts(balances)) for the balances it was   *)
(* passed; running find_cycles first changes nothing of that.              *)
(***************************************************************************)
C16_MergeOfSimplify ==
    \A c \in Callers :
        calls[c].pc = "return" =>
            calls[c].optimized =
                _merge_transactions(simplify_debts(calls[c].passed))

C16_Witness ==
    \E c \in Callers :
        /\ calls[c].pc = "return"
        /\ Len(calls[c].optimized.value) = 2

(***************************************************************************)
(* C17: two invocations on different inputs whose statements interleave    *)
(* each return the list the invocation returns when it runs alone.         *)
(***************************************************************************)
C17_SameAsAlone ==
    \A c \in Callers :
        calls[c].pc = "return" =>
            calls[c].optimized = minimize_transactions(calls[c].passed)

\* invocation 1 has returned two payments while invocation 2 is inside the
\* loop of simplify_debts
C17_Witness ==
    /\ calls[1].pc = "return"
    /\ Len(calls[1].optimized.value) = 2
    /\ calls[2].pc = "loop"
    /\ calls[2].loop.iterations = 1
    /\ LoopGuard(calls[2].loop)

(***************************************************************************)
(* C18: no statement of minimize_transactions, find_cycles, simplify_debts *)
(* and _merge_transactions changes the balances dict of the caller, and    *)
(* _merge_transactions does not change the transaction list it is passed.  *)
(***************************************************************************)
C18_ArgumentsUnchanged ==
    [][\A c \in Callers :
          /\ calls[c].pc # "none" => calls'[c].balances = calls[c].balances
          /\ calls[c].pc = "_merge_transactions"
                => calls'[c].simplified = calls[c].simplified]_vars

C18_Witness ==
    \E c \in Callers :
        /\ calls[c].pc = "return"
        /\ calls[c].balances = calls[c].passed
        /\ \E i \in 1..Len(calls[c].balances) : calls[c].balances[i].bal = 0
        /\ Len(calls[c].simplified) = 1

(***************************************************************************)
(* C19: the net balances map that group_balances and user_balances hand to *)
(* minimize_transactions sums to zero, for every set of unsettled shares.  *)
(***************************************************************************)
C19_HandedMapSumsToZero ==
    response.status # "none" => SumBal(response.net_balances) = 0

(***************************************************************************)
(* C20: when a POST /api/expenses of an authenticated user arrives with a  *)
(* key that is not blank, and a response with status 2xx to a request of   *)
(* that user with that key was stored less than the time to live ago, the  *)
(* request is answered with the status and the body stored last for that   *)
(* user and key, and the view does not run for it.                         *)
(***************************************************************************)
\* the entries stored so far for the user and the key of the request
StoredFor(request) ==
    {i \in 1..Len(stored) :
        /\ stored[i].user = request.user.id
        /\ stored[i].key = strip(request.header)}

C20_CachedReplay ==
    [][\A request \in Requests :
          (/\ Len(requests') = Len(requests) + 1
           /\ requests'[Len(requests')].request = request
           /\ request.method = "POST"
           /\ request.path.stem = "/api/expenses"
           /\ request.user.is_authenticated
           /\ strip(request.header) # <<>>
           /\ \E i \in StoredFor(request) :
                  /\ Is2xx(stored[i].value)
                  /\ now < stored[i].at + IDEMPOTENCY_TTL_SECONDS)
             => LET r == requests'[Len(requests')]
                IN  /\ r.pc = "response"
                    /\ ~r.ran_view
                    /\ r.response = stored[SetMax(StoredFor(request))].value]_vars

\* the second request, with the key padded, was sent the response of the
\* first without a run of the view
C20_Witness ==
    /\ Len(requests) = 2
    /\ requests[1].pc = "sent" /\ requests[1].ran_view
    /\ requests[1].response.status_code = 201
    /\ requests[2].request.header = <<" ", "k">>
    /\ requests[2].pc = "sent" /\ ~requests[2].ran_view
    /\ requests[2].response = requests[1].response
    /\ now > 0

(***************************************************************************)
(* C21: of two POST /api/expenses requests of the same authenticated user  *)
(* with the same key, at most one is answered 201 by a run of the view,    *)
(* also when the second arrives before the response to the first has been  *)
(* stored: no expense is created twice while no time has passed.           *)
(***************************************************************************)
\* request i created an expense: the view ran for it and answered 201
Created(i) ==
    /\ requests[i].ran_view
    /\ requests[i].response # None
    /\ requests[i].response.status_code = 201

SameSubmission(i, j) ==
    /\ requests[i].request.method = "POST"
    /\ requests[j].request.method = "POST"
    /\ requests[i].request.path.stem = "/api/expenses"
    /\ requests[j].request.path.stem = "/api/expenses"
    /\ requests[i].request.user.is_authenticated
    /\ requests[i].request.user = requests[j].request.user
    /\ strip(requests[i].request.header) # <<>>
    /\ strip(requests[i].request.header) = strip(requests[j].request.header)

C21_NoDoubleSubmission ==
    \A i \in 1..Len(requests) : \A j \in 1..Len(requests) :
        (i < j /\ SameSubmission(i, j) /\ now = 0)
            => ~(Created(i) /\ Created(j))

(***************************************************************************)
(* C22: every iteration of the matching loop of simplify_debts brings the  *)
(* current creditor or the current debtor to zero and advances past each   *)
(* of the two that is at zero, and the number of iterations never exceeds  *)
(* the number of creditors plus the number of debtors minus one.           *)
(***************************************************************************)
C22_IterationSettlesOne ==
    [][\A c \in Callers :
          (calls[c].pc = "loop" /\ LoopGuard(calls[c].loop)) =>
              LET before == calls[c].loop
                  after == calls'[c].loop
                  creditor == after.creditors[before.creditor_idx]
                  debtor == after.debtors[before.debtor_idx]
              IN  /\ creditor.amt = 0 \/ debtor.amt = 0
                  /\ creditor.amt >= 0 /\ debtor.amt >= 0
                  /\ after.creditor_idx =
                        before.creditor_idx + (IF creditor.amt = 0 THEN 1 ELSE 0)
                  /\ after.debtor_idx =
                        before.debtor_idx + (IF debtor.amt = 0 THEN 1 ELSE 0)
                  /\ after.iterations = before.iterations + 1
                  /\ after.iterations
                        <= Len(after.creditors) + Len(after.debtors) - 1]_vars

\* two creditors and two debtors, and the loop has ended after three
\* iterations
C22_Witness ==
    /\ calls[1].pc = "loop"
    /\ ~LoopGuard(calls[1].loop)
    /\ Len(calls[1].loop.creditors) = 2
    /\ Len(calls[1].loop.debtors) = 2
    /\ calls[1].loop.iterations = 3

(***************************************************************************)
(* C23: in every iteration of the matching loop the current creditor and   *)
(* the current debtor are the largest (by the balance passed in) of those  *)
(* not yet exhausted, all before them are at zero and all after them are   *)
(* untouched; the iteration emits one transaction between the two for the  *)
(* smaller of their remaining amounts, or none when that amount is within  *)
(* the tolerance; the first transaction is between the largest creditor    *)
(* and the largest debtor.                                                 *)
(***************************************************************************)
\* entry i of a list of the loop is the largest of those from i on, the
\* entries before it are exhausted and those after it are as passed in
LargestLeft(list, i, passed) ==
    /\ \A k \in 1..(i - 1) : list[k].amt = 0
    /\ \A k \in (i + 1)..Len(list) :
          /\ list[k].amt = Abs(Lookup(passed, list[k].uid))
          /\ list[k].amt <= Abs(Lookup(passed, list[i].uid))

\* u has the largest balance of its sign
LargestOfSide(passed, u) ==
    \A i \in 1..Len(passed) :
        (passed[i].bal > 0) = (Lookup(passed, u) > 0)
            => Abs(passed[i].bal) <= Abs(Lookup(passed, u))

C23_LargestFirst ==
    [][\A c \in Callers :
          (calls[c].pc = "loop" /\ LoopGuard(calls[c].loop)) =>
              LET before == calls[c].loop
                  after == calls'[c].loop
                  creditor == before.creditors[before.creditor_idx]
                  debtor == before.debtors[before.debtor_idx]
                  smaller == IF creditor.amt <= debtor.amt
                             THEN creditor.amt ELSE debtor.amt
              IN  /\ LargestLeft(before.creditors, before.creditor_idx,
                                 calls[c].passed)
                  /\ LargestLeft(before.debtors, before.debtor_idx,
                                 calls[c].passed)
                  /\ IF smaller > Eps
                     THEN \E t \in {[from |-> debtor.uid, to |-> creditor.uid,
                                      amount |-> float(smaller)],
                                     [from |-> creditor.uid, to |-> debtor.uid,
                                      amount |-> float(smaller)]} :
                             after.simplified = Append(before.simplified, t)
                     ELSE after.simplified = before.simplified
                  /\ after.simplified # <<>> =>
                        /\ LargestOfSide(calls[c].passed, after.simplified[1].from)
                        /\ LargestOfSide(calls[c].passed, after.simplified[1].to)]_vars

\* the loop has ended with two transactions, and the first of them is with a
\* participant that comes after a smaller one of its side in the map passed in
C23_Witness ==
    /\ calls[1].pc = "loop"
    /\ ~LoopGuard(calls[1].loop)
    /\ Len(calls[1].loop.simplified) = 2
    /\ \E i, j \in 1..Len(calls[1].passed) :
          /\ i < j
          /\ Abs(calls[1].passed[i].bal) > Eps
          /\ (calls[1].passed[i].bal > 0) = (calls[1].passed[j].bal > 0)
          /\ Abs(calls[1].passed[i].bal) < Abs(calls[1].passed[j].bal)
          /\ calls[1].passed[j].uid \in {calls[1].loop.simplified[1].from,
                                         calls[1].loop.simplified[1].to}

(***************************************************************************)
(* C24: for a NetBalance map that sums to zero, the amounts of the         *)
(* transactions of simplify_debts in which a participant is "from" or "to" *)
(* add up to that participant's absolute balance, to within less than      *)
(* 0.01: nothing of 0.01 or more is dropped.                               *)
(***************************************************************************)
C24_OnlyDustDropped ==
    (method = "simplify_debts" /\ SumBal(balances) = 0) =>
        \A u \in Keys(balances) :
            Abs(Abs(Lookup(balances, u))
                  - (Paid(result.value, u) + Received(result.value, u))) < Eps

(***************************************************************************)
(* C25: _merge_transactions returns a list for every transaction list; it  *)
(* never raises.                                                           *)
(***************************************************************************)
C25_AlwaysReturns ==
    method = "_merge_transactions" => result.status = "ok"

(***************************************************************************)
(* C26: for every NetBalance map, balanced or not, the amounts of the      *)
(* transactions of simplify_debts in which a participant is "from" or "to" *)
(* add up to no more than that participant's absolute balance.             *)
(***************************************************************************)
C26_NeverOverSettled ==
    method = "simplify_debts" =>
        \A u \in Keys(balances) :
            Paid(result.value, u) + Received(result.value, u)
                <= Abs(Lookup(balances, u))

\* an unbalanced map, and a participant whose two transactions add up to
\* the whole of their balance
C26_Witness ==
    /\ method = "simplify_debts"
    /\ SumBal(balances) # 0
    /\ Len(result.value) = 2
    /\ \E u \in Keys(balances) :
          /\ Paid(result.value, u) + Received(result.value, u)
                = Abs(Lookup(balances, u))
          /\ \A i \in 1..2 : u \in {result.value[i].from, result.value[i].to}

(***************************************************************************)
(* C27: in the output of simplify_debts nobody is "from" in one            *)
(* transaction and "to" in another, and no two transactions have the same  *)
(* "from" and the same "to".                                               *)
(***************************************************************************)
C27_Bipartite ==
    method = "simplify_debts" =>
        /\ {result.value[i].from : i \in 1..Len(result.value)}
              \cap {result.value[i].to : i \in 1..Len(result.value)} = {}
        /\ \A i \in 1..Len(result.value) : \A j \in 1..Len(result.value) :
              (result.value[i].from = result.value[j].from
                 /\ result.value[i].to = result.value[j].to) => i = j

\* two transactions between four different participants
C27_Witness ==
    /\ method = "simplify_debts"
    /\ Len(result.value) = 2
    /\ Cardinality(Involved(result.value)) = 4

(***************************************************************************)
(* C28: for every NetBalance map, minimize_transactions returns the        *)
(* transactions simplify_debts returned, with the same "from", "to" and    *)
(* amount, in the same order.                                              *)
(***************************************************************************)
C28_MergeChangesNothing ==
    \A c \in Callers :
        calls[c].pc = "return" =>
            calls[c].optimized = [status |-> "ok", value |-> calls[c].simplified]

\* an unbalanced map for which two transactions are returned
C28_Witness ==
    /\ calls[1].pc = "return"
    /\ SumBal(calls[1].passed) # 0
    /\ Len(calls[1].simplified) = 2
    /\ Len(calls[1].optimized.value) = 2

(***************************************************************************)
(* C29: find_cycles returns the empty list for every NetBalance map.       *)
(***************************************************************************)
C29_NoCycles ==
    method = "find_cycles" => result = [status |-> "ok", value |-> <<>>]

\* two participants with a positive and two with a negative balance
C29_Witness ==
    /\ method = "find_cycles"
    /\ Cardinality({i \in 1..Len(balances) : balances[i].bal > 0}) = 2
    /\ Cardinality({i \in 1..Len(balances) : balances[i].bal < 0}) = 2
    /\ result.value = <<>>

====
